---- MODULE Spec2Model ----
(***************************************************************************)
(* Project Pro: a state-machine model of the calendar deadline index, the  *)
(* per-project progress summary and the task ordering.                     *)
(*                                                                         *)
(* Two versions of CalendarScreen live in the repository.  The one that    *)
(* AppNavigator.js imports is src/src/screens/CalendarScreen.js; its       *)
(* definitions keep the source's names.  The revised one is                *)
(* src/unnamed/part_009 (with the date helpers of src/unnamed/part_003);   *)
(* its definitions carry the suffix P9.                                    *)
(***************************************************************************)
EXTENDS Integers, Sequences, FiniteSets, TLC

VARIABLES
    screen,        \* the mounted screen; "CalendarScreen" and "P9" are the two CalendarScreen files
    tz,            \* the device's offset from UTC, in hours (local = UTC + tz)
    projectsSnap,  \* the latest QuerySnapshot delivered by the projects listener
    tasksSnap,     \* the latest QuerySnapshot delivered by the task-deadline listener
    tasksCollection, \* the user's tasks collection at that delivery
    deadlines,     \* CalendarScreen: useState({}) deadlines
    projects,      \* part_009: useState({}) projects lookup
    selectedDate,  \* CalendarScreen: useState(null) selectedDate, [iso, dateObj] or Null
    month,         \* CalendarScreen: useState(today.getMonth()), 0-based
    year,          \* CalendarScreen: useState(today.getFullYear())
    uncaught,      \* TRUE once a listener callback has ended in an uncaught exception
    taskCounts,    \* part_009: useState({}) taskCounts
    projectTasks,  \* ProjectsScreen.js: useState({}) projectTasks
    tasks,         \* TasksScreen.js: useState([]) tasks
    allTasksSnap,  \* the latest QuerySnapshot of an unfiltered tasks query
    dbProjects,    \* Firestore: the ids of the documents of collection "projects"
    dbTasks,       \* Firestore: the documents of collection "tasks"
    nextTaskId,    \* the id addDoc gives the next task document
    selectedProject, \* ProjectsScreen.js: useState(null) selectedProject, a project id or NoProject
    deletion,      \* the running performProjectDelete: its position and its deleteDoc calls
    alert,         \* the title of the alert raised last, "" before the first
    isAuthenticated, \* AppNavigator: useState(false)
    isLoading,     \* AppNavigator: useState(true)
    showSidebar,   \* AppNavigator: useState(false)
    user,          \* part_000: useState(null) user
    storage,       \* AsyncStorage: the stored authentication items
    authPc,        \* where the effect that sets up authentication stands
    callback,      \* part_000: the onAuthStateChanged callbacks that are at an await, oldest first
    signOutPc,     \* part_005: where handleSignOut stands, "idle" when it does not run
    isMounted,     \* part_000: let isMounted
    firebaseUser,  \* Firebase Auth: the uid of the signed-in user, "" for none
    delivered,     \* the auth state last passed to the listener, "never" before the first
    route,         \* the route the navigator shows
    menuPresses,   \* how often the Header's onMenuPress has been called
    isRefreshing,  \* ProjectsScreen.js, TasksScreen.js: useState(false) isRefreshing
    forceRefresh,  \* TasksScreen.js: useState(0) forceRefresh
    awaitingFirst, \* the screen's listener is registered and has not been called yet
    toggled        \* per task id, the stored completed flags its fulfilled toggles replaced

\* Firestore and the handlers that write to it
storeVars == <<dbProjects, dbTasks, nextTaskId, selectedProject, deletion, alert>>

\* AppNavigator, AsyncStorage and Firebase Auth
navVars == <<isAuthenticated, isLoading, showSidebar, user, storage, authPc, callback, signOutPc,
             isMounted, firebaseUser, delivered, route, menuPresses>>

\* the state of the screens, but for which screen it is
screenVars == <<tz, projectsSnap, tasksSnap, tasksCollection, deadlines, projects,
                selectedDate, month,
                year, uncaught, taskCounts, projectTasks, tasks, allTasksSnap>>

\* pull-to-refresh and the completion toggle
listVars == <<isRefreshing, forceRefresh, awaitingFirst, toggled>>

vars == <<screen, screenVars, storeVars, navVars, listVars>>

(***************************************************************************)
(* Bounds of the model.                                                    *)
(***************************************************************************)
NumProjects == 2     \* project documents are 1..NumProjects
NumTasks == 2        \* task documents are 1..NumTasks

ProjectIds == 1..NumProjects
TaskIds == 1..NumTasks

\* null where a record or a list may stand: the empty tuple
Null == <<>>

\* a task without a projectId field; no project selected
NoProject == 0

\* AsyncStorage: "" stands for a missing item, "object" for the JSON text of
\* an object, "corrupt" for text JSON.parse rejects
Storage(authState, userId, userPreferences) ==
    [authState |-> authState, userId |-> userId, userPreferences |-> userPreferences]

Storages ==
    {Storage(a, u, p) : a \in {"authenticated", ""}, u \in {"u1", ""},
                        p \in {"object", "", "corrupt"}}

\* part_000: no onAuthStateChanged callback is at an await
NoCallback == <<>>

\* performProjectDelete is not running and has not run
NoDeletion ==
    [pc |-> "idle", project |-> NoProject, issued |-> {}, pending |-> {},
     failed |-> {}, result |-> "none", alert |-> ""]

(***************************************************************************)
(* Time.  An instant is a number of hours since 1970-01-01T00:00Z.  A Date *)
(* is [valid, t]; an Invalid Date has valid = FALSE.                       *)
(***************************************************************************)
\* 2025-10-15T02:00Z, 2025-10-15T21:00Z, 2025-10-31T22:00Z
Instants == {489026, 489045, 489430}

TimeZones == {-5, 0, 9}

Date(v, t) == [valid |-> v, t |-> t]

\* Days since the epoch -> <<year, month (1..12), day>> in the proleptic
\* Gregorian calendar: what the engine's Date does for getFullYear,
\* getMonth and getDate (and their UTC counterparts).
CivilOfMonth(era, yoe, doy, mp) ==
    <<yoe + era * 400 + (IF mp < 10 THEN 0 ELSE 1),
      IF mp < 10 THEN mp + 3 ELSE mp - 9,
      doy - (153 * mp + 2) \div 5 + 1>>

CivilOfDayOfYear(era, yoe, doy) == CivilOfMonth(era, yoe, doy, (5 * doy + 2) \div 153)

CivilOfYearOfEra(era, doe, yoe) ==
    CivilOfDayOfYear(era, yoe, doe - (365 * yoe + yoe \div 4 - yoe \div 100))

CivilOfDayOfEra(era, doe) ==
    CivilOfYearOfEra(era, doe,
        (doe - doe \div 1460 + doe \div 36524 - doe \div 146096) \div 365)

CivilFromDays(days) ==
    CivilOfDayOfEra((days + 719468) \div 146097,
                    (days + 719468) - ((days + 719468) \div 146097) * 146097)

\* <<year, month (1..12), day>> -> days since the epoch: new Date(y, m, d)
DaysOfYearOfEra(era, yoe, doy) ==
    era * 146097 + (yoe * 365 + yoe \div 4 - yoe \div 100 + doy) - 719468

DaysOfShiftedYear(yy, m, d) ==
    DaysOfYearOfEra(yy \div 400, yy - (yy \div 400) * 400,
                    (153 * (IF m > 2 THEN m - 3 ELSE m + 9) + 2) \div 5 + d - 1)

DaysFromCivil(y, m, d) == DaysOfShiftedYear(IF m <= 2 THEN y - 1 ELSE y, m, d)

\* the local and the UTC calendar day of a Date, as <<year, month, day>>
LocalCivil(date) == CivilFromDays((date.t + tz) \div 24)
UTCCivil(date) == CivilFromDays(date.t \div 24)

getFullYear(date) == LocalCivil(date)[1]
getMonth(date) == LocalCivil(date)[2] - 1
getDate(date) == LocalCivil(date)[3]

Digits == <<"0", "1", "2", "3", "4", "5", "6", "7", "8", "9">>

RECURSIVE String(_)
\* String(n) for a natural number n
String(n) == IF n < 10 THEN Digits[n + 1] ELSE String(n \div 10) \o Digits[(n % 10) + 1]

RECURSIVE padStart(_, _, _)
\* s.padStart(len, fill) for a one-character fill
padStart(s, len, fill) == IF Len(s) >= len THEN s ELSE padStart(fill \o s, len, fill)

\* YYYY-MM-DD as toISOString writes it, for years 0..9999
ISODay(c) ==
    padStart(String(c[1]), 4, "0") \o "-" \o padStart(String(c[2]), 2, "0")
        \o "-" \o padStart(String(c[3]), 2, "0")

\* `${year}-${month}-${day}` with month and day padded to two digits
TemplateDay(y, m, d) ==
    String(y) \o "-" \o padStart(String(m), 2, "0") \o "-" \o padStart(String(d), 2, "0")

\* The two day formats, by day number
ISODayOf(d) == ISODay(CivilFromDays(d))

TemplateDayOf(d) == TemplateDay(CivilFromDays(d)[1], CivilFromDays(d)[2], CivilFromDays(d)[3])

\* Both formats tabulated once over September..November 2025, where all but
\* the epoch instants of the model fall.  The tables only save evaluation
\* time: entry i is the format of day FirstTabulated + i - 1.
FirstTabulated == DaysFromCivil(2025, 9, 1)
LastTabulated == DaysFromCivil(2025, 11, 30)

RECURSIVE ISODayTable(_)
ISODayTable(n) ==
    IF n = 0 THEN <<>> ELSE Append(ISODayTable(n - 1), ISODayOf(FirstTabulated + n - 1))

RECURSIVE TemplateDayTable(_)
TemplateDayTable(n) ==
    IF n = 0 THEN <<>> ELSE Append(TemplateDayTable(n - 1), TemplateDayOf(FirstTabulated + n - 1))

isoDays == ISODayTable(LastTabulated - FirstTabulated + 1)
templateDays == TemplateDayTable(LastTabulated - FirstTabulated + 1)

\* date.toISOString().slice(0, 10): the UTC calendar day
toISOStringSlice(date) ==
    IF date.t \div 24 \in FirstTabulated..LastTabulated
    THEN isoDays[date.t \div 24 - FirstTabulated + 1]
    ELSE ISODayOf(date.t \div 24)

\* the key built from getFullYear(), getMonth() + 1 and getDate(): the local
\* calendar day
LocalDateString(date) ==
    IF (date.t + tz) \div 24 \in FirstTabulated..LastTabulated
    THEN templateDays[(date.t + tz) \div 24 - FirstTabulated + 1]
    ELSE TemplateDay(getFullYear(date), getMonth(date) + 1, getDate(date))

(***************************************************************************)
(* Deadline values as they can come out of docSnap.data().  Every value is *)
(* [kind, valid, t]:                                                       *)
(*   "null", "undefined", "emptyString", "object" (no toDate property)     *)
(*   "boolean"      valid is the boolean                                   *)
(*   "number"       valid = FALSE is NaN; otherwise the number denotes t   *)
(*   "string"       valid = FALSE is unparsable ("not-a-date"); otherwise  *)
(*                  a string with a UTC designator that parses to t        *)
(*   "localString"  a string without zone: parses to wall-clock t, local   *)
(*   "Date"         a native Date, Invalid Date when valid = FALSE         *)
(*   "timestamp"    an object whose toDate() returns Date(valid, t)        *)
(*   "badToDate"    an object whose toDate property is truthy, not callable*)
(***************************************************************************)
Value(k, v, t) == [kind |-> k, valid |-> v, t |-> t]

NullValue == Value("null", FALSE, 0)
Undefined == Value("undefined", FALSE, 0)
NotADate == Value("string", FALSE, 0)
Boolean(b) == Value("boolean", b, 0)

Truthy(v) ==
    CASE v.kind \in {"null", "undefined", "emptyString"} -> FALSE
      [] v.kind = "boolean" -> v.valid
      [] v.kind = "number" -> v.valid /\ v.t # 0
      [] OTHER -> TRUE

IsObject(v) == v.kind \in {"Date", "timestamp", "badToDate", "object"}

HasToDate(v) == v.kind \in {"timestamp", "badToDate"}

InstanceOfDate(v) == v.kind = "Date"

\* new Date(value) for a truthy value that is no Date
NewDate(v) ==
    CASE v.kind = "number" -> Date(TRUE, v.t)
      [] v.kind = "boolean" -> Date(TRUE, 0)
      [] v.kind = "string" -> Date(v.valid, v.t)
      [] v.kind = "localString" -> Date(TRUE, v.t - tz)
      [] OTHER -> Date(FALSE, 0)

\* The first statements of toDateString / safeToDateString, the same in
\* every copy: the value `date` holds afterwards, or the TypeError of
\* calling a toDate that is no function.
ToDate(v) ==
    IF Truthy(v) /\ IsObject(v) /\ HasToDate(v)
    THEN IF v.kind = "timestamp"
         THEN [threw |-> FALSE, isDate |-> TRUE, date |-> Date(v.valid, v.t)]
         ELSE [threw |-> TRUE, isDate |-> FALSE, date |-> Date(FALSE, 0)]
    ELSE IF Truthy(v) /\ ~InstanceOfDate(v)
         THEN [threw |-> FALSE, isDate |-> TRUE, date |-> NewDate(v)]
         ELSE [threw |-> FALSE, isDate |-> InstanceOfDate(v), date |-> Date(v.valid, v.t)]

Ok(k) == [status |-> "ok", key |-> k]
NoDate == [status |-> "null", key |-> ""]
Threw == [status |-> "throw", key |-> ""]

\* CalendarScreen.js toDateString
toDateString(deadline) ==
    LET r == ToDate(deadline)
    IN  IF r.threw THEN Threw
        ELSE IF r.isDate /\ r.date.valid THEN Ok(toISOStringSlice(r.date))
        ELSE NoDate

\* toDateStringP9 without the !isNaN(date) test: an Invalid Date is formatted
toDateStringP9_NoNaNTest(deadline) ==
    LET r == ToDate(deadline)
    IN  IF r.threw THEN Threw
        ELSE IF r.isDate
             THEN Ok(IF r.date.valid THEN LocalDateString(r.date) ELSE "NaN-NaN-NaN")
             ELSE NoDate

\* part_009 toDateString
toDateStringP9(deadline) ==
    LET r == ToDate(deadline)
    IN  IF r.threw THEN Threw
        ELSE IF r.isDate /\ r.date.valid THEN Ok(LocalDateString(r.date))
        ELSE NoDate

\* part_003 dateToLocalString, applied to a Date or to null
dateToLocalString(date) ==
    IF date = Null THEN ""
    ELSE IF ~date.valid THEN ""
    ELSE LocalDateString(date)

(***************************************************************************)
(* Documents and query snapshots.  A query without orderBy returns its     *)
(* documents in document-id order, so a snapshot is the id-ordered         *)
(* sequence of the documents that match.                                   *)
(***************************************************************************)
BadToDate == Value("badToDate", FALSE, 0)

\* The documented representations of a deadline: null or missing, a string
\* (parsable or not), a Date, a backend Timestamp.
\* 489026 is 2025-10-15T02:00Z, 489045 is 2025-10-15T21:00Z.
ProjectDeadlineValues ==
    {NullValue, Value("Date", TRUE, 489026), Value("timestamp", TRUE, 489026),
     Value("timestamp", TRUE, 489045)}

TaskDeadlineValues ==
    {NullValue, Undefined, NotADate, Value("string", TRUE, 489026),
     Value("timestamp", TRUE, 489045)}

DeadlineValues == ProjectDeadlineValues \cup TaskDeadlineValues

\* Every shape a document field can take.
AnyDeadlineValues ==
    DeadlineValues \cup
    {BadToDate, Value("object", FALSE, 0), Value("emptyString", FALSE, 0),
     Boolean(TRUE), Boolean(FALSE),
     Value("number", TRUE, 489026), Value("number", TRUE, 0), Value("number", FALSE, 0),
     Value("Date", FALSE, 0), Value("timestamp", FALSE, 0),
     Value("localString", TRUE, 489026), Value("Date", TRUE, 489430)}

ProjectDoc(id, deadline) ==
    [id |-> id, title |-> "P" \o String(id), deadline |-> deadline]

TaskDoc(id, projectId, completed, deadline) ==
    [id |-> id, title |-> "T" \o String(id), projectId |-> projectId,
     completed |-> Boolean(completed), deadline |-> deadline]

RECURSIVE Ascending(_)
\* the elements of a finite set of integers, in increasing order
Ascending(S) ==
    IF S = {} THEN <<>>
    ELSE LET m == CHOOSE x \in S : \A y \in S : x <= y
         IN  <<m>> \o Ascending(S \ {m})

\* every result set the projects query can deliver, with deadlines from D
ProjectSnapshots(D) ==
    UNION {{[i \in 1..Cardinality(S) |-> ProjectDoc(Ascending(S)[i], f[Ascending(S)[i]])] :
               f \in [S -> D]} : S \in SUBSET ProjectIds}

\* the project a task document of the calendar model belongs to
OwnerOf(id) == ((id - 1) % NumProjects) + 1

\* every content of the user's tasks collection in the calendar model, with
\* deadlines from D; a completed task has the deadline 2025-10-15T21:00Z
TaskCollections(D) ==
    UNION {{[i \in 1..Cardinality(S) |->
                TaskDoc(Ascending(S)[i], OwnerOf(Ascending(S)[i]),
                        f[Ascending(S)[i]][1], f[Ascending(S)[i]][2])] :
               f \in [S -> ({FALSE} \X D)
                             \cup {<<TRUE, Value("timestamp", TRUE, 489045)>>}]} :
           S \in SUBSET TaskIds}

(***************************************************************************)
(* The deadlines index: a function from day keys to sequences of entries.  *)
(***************************************************************************)
EmptyObject == [k \in {} |-> <<>>]

\* the same with unshift in place of push
Push_Unshift(obj, key, entry) ==
    IF key \in DOMAIN obj
    THEN [obj EXCEPT ![key] = <<entry>> \o @]
    ELSE [k \in DOMAIN obj \cup {key} |-> IF k = key THEN <<entry>> ELSE obj[k]]

\* if (!obj[key]) obj[key] = []; obj[key].push(entry)
Push(obj, key, entry) ==
    IF key \in DOMAIN obj
    THEN [obj EXCEPT ![key] = Append(@, entry)]
    ELSE [k \in DOMAIN obj \cup {key} |-> IF k = key THEN <<entry>> ELSE obj[k]]

\* { ...prev, ...next }
Spread(prev, next) ==
    [k \in DOMAIN prev \cup DOMAIN next |-> IF k \in DOMAIN next THEN next[k] ELSE prev[k]]

\* CalendarScreen.js: { type, title: data.title, ...data }
Entry(type, doc) ==
    IF type = "Project"
    THEN [type |-> type, title |-> doc.title, deadline |-> doc.deadline]
    ELSE [type |-> type, title |-> doc.title, projectId |-> doc.projectId,
          completed |-> doc.completed, deadline |-> doc.deadline]

\* part_009: { type, title, id, ...data } and { type, title, id, projectId, ...data }
EntryP9(type, doc) ==
    IF type = "Project"
    THEN [type |-> type, title |-> doc.title, id |-> doc.id, deadline |-> doc.deadline]
    ELSE [type |-> type, title |-> doc.title, id |-> doc.id, projectId |-> doc.projectId,
          completed |-> doc.completed, deadline |-> doc.deadline]

\* some document of the snapshot makes toDateString throw, which ends forEach
\* and the callback before any state setter is reached
ForEachThrows(snap) == \E i \in 1..Len(snap) : toDateString(snap[i].deadline).status = "throw"

ForEachThrowsP9(snap) == \E i \in 1..Len(snap) : toDateStringP9(snap[i].deadline).status = "throw"

RECURSIVE newDeadlines(_, _, _, _)
\* CalendarScreen.js: the querySnapshot.forEach loop from document i on
newDeadlines(snap, type, i, acc) ==
    IF i > Len(snap) THEN acc
    ELSE LET dateStr == toDateString(snap[i].deadline)
         IN  IF dateStr.status = "ok"
             THEN newDeadlines(snap, type, i + 1, Push(acc, dateStr.key, Entry(type, snap[i])))
             ELSE newDeadlines(snap, type, i + 1, acc)

RECURSIVE typeDeadlinesP9(_, _, _, _)
\* part_009: the querySnapshot.forEach loop from document i on
typeDeadlinesP9(snap, type, i, acc) ==
    IF i > Len(snap) THEN acc
    ELSE LET dateStr == toDateStringP9(snap[i].deadline)
         IN  IF dateStr.status = "ok"
             THEN typeDeadlinesP9(snap, type, i + 1, Push(acc, dateStr.key, EntryP9(type, snap[i])))
             ELSE typeDeadlinesP9(snap, type, i + 1, acc)

\* part_009: the projectsData lookup built by the same loop
projectsData(snap) ==
    [id \in {snap[i].id : i \in 1..Len(snap)} |->
        CHOOSE d \in {snap[i] : i \in 1..Len(snap)} : d.id = id]

\* the merge without the removal of the type's former entries
mergeDeadlinesP9_KeepFormer(prev, type, typeDeadlines) ==
    [k \in DOMAIN prev \cup DOMAIN typeDeadlines |->
        (IF k \in DOMAIN prev THEN prev[k] ELSE <<>>)
            \o (IF k \in DOMAIN typeDeadlines THEN typeDeadlines[k] ELSE <<>>)]

\* part_009: the updater passed to setDeadlines
mergeDeadlinesP9(prev, type, typeDeadlines) ==
    LET filtered == [k \in DOMAIN prev |-> SelectSeq(prev[k], LAMBDA item : item.type # type)]
        kept == {k \in DOMAIN prev : Len(filtered[k]) # 0}
        updated == [k \in kept |-> filtered[k]]
    IN  [k \in kept \cup DOMAIN typeDeadlines |->
            (IF k \in kept THEN updated[k] ELSE <<>>)
                \o (IF k \in DOMAIN typeDeadlines THEN typeDeadlines[k] ELSE <<>>)]

\* CalendarScreen.js: the index after a callback for `type` has run on snap
afterSnapshot(prev, type, snap) == Spread(prev, newDeadlines(snap, type, 1, EmptyObject))

\* part_009: the index after a callback for `type` has run on snap
afterSnapshotP9(prev, type, snap) ==
    mergeDeadlinesP9(prev, type, typeDeadlinesP9(snap, type, 1, EmptyObject))

(***************************************************************************)
(* Initial state: the screens as constructed, before any snapshot.         *)
(* The model's "today" is in October 2025.                                 *)
(***************************************************************************)
Init ==
    /\ screen \in {"CalendarScreen", "P9", "ProjectsScreen", "TasksScreen",
                  "AppNavigator", "P0"}
    /\ tz \in TimeZones
    /\ projectsSnap = <<>>
    /\ tasksSnap = <<>>
    /\ tasksCollection = <<>>
    /\ allTasksSnap = <<>>
    /\ deadlines = EmptyObject
    /\ projects = EmptyObject
    /\ selectedDate = Null
    /\ month = 9
    /\ year = 2025
    /\ uncaught = FALSE
    /\ taskCounts = EmptyObject
    /\ projectTasks = EmptyObject
    /\ tasks = <<>>
    /\ dbProjects = ProjectIds
    /\ dbTasks = {}
    /\ nextTaskId = 1
    /\ selectedProject = NoProject
    /\ deletion = NoDeletion
    /\ alert = ""
    /\ isAuthenticated = FALSE
    /\ isLoading = TRUE
    /\ showSidebar = FALSE
    /\ user = Null
    /\ storage \in (IF screen = "P0" THEN Storages ELSE {Storage("", "", "")})
    /\ authPc = (IF screen = "P0" THEN "reading" ELSE "listening")
    /\ callback = NoCallback
    /\ signOutPc = "idle"
    /\ isMounted = TRUE
    /\ firebaseUser \in (IF screen \in {"AppNavigator", "P0"} THEN {"", "u1"} ELSE {""})
    /\ delivered = "never"
    /\ route = "Projects"
    /\ menuPresses = 0
    /\ isRefreshing = FALSE
    /\ forceRefresh = 0
    /\ awaitingFirst = TRUE
    /\ toggled = [id \in {} |-> <<>>]

(***************************************************************************)
(* src/src/screens/CalendarScreen.js: the two listener callbacks.          *)
(***************************************************************************)
ProjectsSnapshot(snap) ==
    /\ screen = "CalendarScreen"
    /\ projectsSnap' = snap
    /\ IF ForEachThrows(snap)
       THEN /\ uncaught' = TRUE
            /\ UNCHANGED deadlines
       ELSE /\ deadlines' = afterSnapshot(deadlines, "Project", snap)
            /\ UNCHANGED uncaught
    /\ UNCHANGED <<navVars, listVars, tasksCollection,
                   storeVars, screen, tz, tasksSnap, projects, selectedDate, month, year,
                   taskCounts, projectTasks, tasks, allTasksSnap>>

\* the tasks query has no filter on `completed`
TasksSnapshot(coll) ==
    /\ screen = "CalendarScreen"
    /\ tasksSnap' = coll
    /\ tasksCollection' = coll
    /\ IF ForEachThrows(coll)
       THEN /\ uncaught' = TRUE
            /\ UNCHANGED deadlines
       ELSE /\ deadlines' = afterSnapshot(deadlines, "Task", coll)
            /\ UNCHANGED uncaught
    /\ UNCHANGED <<navVars, listVars, storeVars, screen, tz, projectsSnap, projects, selectedDate, month, year,
                   taskCounts, projectTasks, tasks, allTasksSnap>>

(***************************************************************************)
(* src/unnamed/part_009: the projects and the task-deadline callbacks.     *)
(***************************************************************************)
ProjectsSnapshotP9(snap) ==
    /\ screen = "P9"
    /\ projectsSnap' = snap
    /\ IF ForEachThrowsP9(snap)
       THEN /\ uncaught' = TRUE
            /\ UNCHANGED <<storeVars, deadlines, projects>>
       ELSE /\ projects' = projectsData(snap)
            /\ deadlines' = afterSnapshotP9(deadlines, "Project", snap)
            /\ UNCHANGED uncaught
    /\ UNCHANGED <<navVars, listVars, tasksCollection,
                   storeVars, screen, tz, tasksSnap, selectedDate, month, year,
                   taskCounts, projectTasks, tasks, allTasksSnap>>

\* the query without where('completed', '==', false)
tasksQueryP9_All(coll) == coll

\* where('completed', '==', false)
tasksQueryP9(coll) == SelectSeq(coll, LAMBDA d : d.completed = Boolean(FALSE))

TasksSnapshotP9(coll) ==
    LET snap == tasksQueryP9(coll)
    IN  /\ screen = "P9"
        /\ tasksSnap' = snap
        /\ tasksCollection' = coll
        /\ IF ForEachThrowsP9(snap)
           THEN /\ uncaught' = TRUE
                /\ UNCHANGED deadlines
           ELSE /\ deadlines' = afterSnapshotP9(deadlines, "Task", snap)
                /\ UNCHANGED uncaught
        /\ UNCHANGED <<navVars, listVars, storeVars, screen, tz, projectsSnap, projects, selectedDate, month, year,
                       taskCounts, projectTasks, tasks, allTasksSnap>>

DocumentedProjectSnapshots == ProjectSnapshots(ProjectDeadlineValues)
DocumentedTaskCollections == TaskCollections(TaskDeadlineValues)

OnProjects == \E snap \in DocumentedProjectSnapshots : ProjectsSnapshot(snap)
OnTasks == \E coll \in DocumentedTaskCollections : TasksSnapshot(coll)
OnProjectsP9 == \E snap \in DocumentedProjectSnapshots : ProjectsSnapshotP9(snap)
OnTasksP9 == \E coll \in DocumentedTaskCollections : TasksSnapshotP9(coll)

NextCalendar == OnProjects \/ OnTasks \/ OnProjectsP9 \/ OnTasksP9

\* either CalendarScreen file under snapshots of documented deadline values
SpecCalendar == Init /\ [][NextCalendar]_vars

NextCalendarP9 == OnProjectsP9 \/ OnTasksP9

\* part_009 alone under the same snapshots
InitP9 == Init /\ screen = "P9"

SpecCalendarP9 == InitP9 /\ [][NextCalendarP9]_vars

(***************************************************************************)
(* The month grid and the selected day, in both CalendarScreen files.      *)
(***************************************************************************)
MaxMonthsAway == 1   \* the months the model navigates away from today's

\* new Date(year, month + 1, 0).getDate(): the last day of the 0-based month
lastDay(y, m) ==
    DaysFromCivil(IF m = 11 THEN y + 1 ELSE y, IF m = 11 THEN 1 ELSE m + 2, 1)
        - DaysFromCivil(y, m + 1, 1)

\* new Date(year, month, date): local midnight of that day
cellDate(y, m, d) == Date(TRUE, DaysFromCivil(y, m + 1, d) * 24 - tz)

\* the days of the displayed month the model presses: the first, the last
\* and those around the deadlines
PressedDays == {1, 14, 15, 16, lastDay(year, month)}

\* CalendarScreen.js: onPress of a day cell
PressCell(d) ==
    /\ screen = "CalendarScreen"
    /\ d \in 1..lastDay(year, month)
    /\ selectedDate' = [iso |-> toISOStringSlice(cellDate(year, month, d)),
                        dateObj |-> cellDate(year, month, d)]
    /\ UNCHANGED <<navVars, listVars, tasksCollection,
                   storeVars, screen, tz, projectsSnap, tasksSnap, deadlines, projects, month, year,
                   uncaught, taskCounts, projectTasks, tasks, allTasksSnap>>

\* part_009: onPress of a day cell
PressCellP9(d) ==
    /\ screen = "P9"
    /\ d \in 1..lastDay(year, month)
    /\ selectedDate' = [iso |-> dateToLocalString(cellDate(year, month, d)),
                        dateObj |-> cellDate(year, month, d)]
    /\ UNCHANGED <<navVars, listVars, tasksCollection,
                   storeVars, screen, tz, projectsSnap, tasksSnap, deadlines, projects, month, year,
                   uncaught, taskCounts, projectTasks, tasks, allTasksSnap>>

\* the key the grid computes for the cell of day d of the displayed month:
\* date.toISOString().slice(0, 10) in CalendarScreen.js,
\* dateToLocalString(date) in part_009
dateStr(d) ==
    IF screen = "CalendarScreen"
    THEN toISOStringSlice(cellDate(year, month, d))
    ELSE dateToLocalString(cellDate(year, month, d))

\* deadlines[dateStr] && deadlines[dateStr].length > 0: the cell shows the dot
hasDeadline(d) == dateStr(d) \in DOMAIN deadlines /\ Len(deadlines[dateStr(d)]) > 0

\* how many months the displayed month is after October 2025
MonthsAfterToday == (year * 12 + month) - (2025 * 12 + 9)

handlePrevMonth ==
    /\ MonthsAfterToday > -MaxMonthsAway
    /\ IF month = 0
       THEN month' = 11 /\ year' = year - 1
       ELSE month' = month - 1 /\ UNCHANGED year
    /\ UNCHANGED <<navVars, listVars, tasksCollection,
                   storeVars, screen, tz, projectsSnap, tasksSnap, deadlines, projects, selectedDate,
                   uncaught, taskCounts, projectTasks, tasks, allTasksSnap>>

handleNextMonth ==
    /\ MonthsAfterToday < MaxMonthsAway
    /\ IF month = 11
       THEN month' = 0 /\ year' = year + 1
       ELSE month' = month + 1 /\ UNCHANGED year
    /\ UNCHANGED <<navVars, listVars, tasksCollection,
                   storeVars, screen, tz, projectsSnap, tasksSnap, deadlines, projects, selectedDate,
                   uncaught, taskCounts, projectTasks, tasks, allTasksSnap>>

\* a JavaScript value that is an array, undefined, or a TypeError thrown
Array(list) == [kind |-> "array", list |-> list]
UndefinedValue == [kind |-> "undefined", list |-> <<>>]
TypeError == [kind |-> "TypeError", list |-> <<>>]

\* deadlines[selectedDate.iso] read without the guards
selectedDeadlines_Unguarded ==
    IF selectedDate = Null THEN TypeError
    ELSE IF selectedDate.iso \in DOMAIN deadlines THEN Array(deadlines[selectedDate.iso])
    ELSE UndefinedValue

\* selectedDate && deadlines[selectedDate.iso] ? deadlines[selectedDate.iso] : []
selectedDeadlines ==
    IF selectedDate # Null /\ selectedDate.iso \in DOMAIN deadlines
    THEN Array(deadlines[selectedDate.iso])
    ELSE Array(<<>>)

OnPressCell == \E d \in PressedDays : PressCell(d)
OnPressCellP9 == \E d \in PressedDays : PressCellP9(d)

NextSelect ==
    OnProjects \/ OnProjectsP9 \/ OnPressCell \/ OnPressCellP9
        \/ handlePrevMonth \/ handleNextMonth

\* either CalendarScreen file under project snapshots, cell presses and
\* month navigation
SpecSelect == Init /\ [][NextSelect]_vars

\* Snapshots whose deadline field holds any shape of value, documented or not,
\* in the first document; the other documents keep documented values
AnyProjectSnapshots ==
    {snap \in ProjectSnapshots(AnyDeadlineValues) :
        \A i \in 1..Len(snap) : snap[i].id # 1 => snap[i].deadline \in ProjectDeadlineValues}

OnAnyProjects == \E snap \in AnyProjectSnapshots : ProjectsSnapshot(snap)
OnAnyProjectsP9 == \E snap \in AnyProjectSnapshots : ProjectsSnapshotP9(snap)

NextAnyValue == OnAnyProjects \/ OnAnyProjectsP9

\* either CalendarScreen file under project snapshots with arbitrary deadline fields
SpecAnyValue == Init /\ [][NextAnyValue]_vars

(***************************************************************************)
(* Task documents as ProjectsScreen, TasksScreen and the counts listener   *)
(* of part_009 read them.                                                  *)
(***************************************************************************)
MaxTasks == 3   \* the documents of a delivered task result set

\* a priority field: a string, or the field is missing
Text(s) == [kind |-> "string", text |-> s]
NoText == [kind |-> "undefined", text |-> ""]

Task(id, projectId, completed, priority, createdAt) ==
    [id |-> id, projectId |-> projectId, completed |-> completed,
     priority |-> priority, createdAt |-> createdAt]

\* the fields that vary in the progress model: projectId and completed
ProgressFields ==
    (ProjectIds \cup {NoProject}) \X {Boolean(TRUE), Boolean(FALSE), Undefined}

\* the fields that vary in the ordering model: completed, priority, createdAt
\* (null while the server timestamp is pending)
SortFields ==
    {Boolean(TRUE), Boolean(FALSE), Undefined}
        \X {Text("urgent"), Text("Medium"), Text("low"), NoText, Text("constructor")}
        \X {NullValue, Value("timestamp", TRUE, 1), Value("timestamp", TRUE, 2)}

\* the result sets that may follow prev: one more document, or none at all
ProgressCollections(prev) ==
    {<<>>} \cup
    (IF Len(prev) < MaxTasks
     THEN {Append(prev, Task(Len(prev) + 1, f[1], f[2], Text("medium"),
                             Value("timestamp", TRUE, 1))) : f \in ProgressFields}
     ELSE {})

\* the same for the tasks of the project TasksScreen was opened for, when
\* only the completed field varies
ProjectCollections(prev) ==
    {<<>>} \cup
    (IF Len(prev) < MaxTasks
     THEN {Append(prev, Task(Len(prev) + 1, 1, completed, Text("medium"),
                             Value("timestamp", TRUE, 1))) :
               completed \in {Boolean(TRUE), Boolean(FALSE), Undefined}}
     ELSE {})

\* and when completed, priority and createdAt vary
SortCollections(prev) ==
    {<<>>} \cup
    (IF Len(prev) < MaxTasks
     THEN {Append(prev, Task(Len(prev) + 1, 1, f[1], f[2], f[3])) : f \in SortFields}
     ELSE {})

\* Math.round((completed / total) * 100) for total > 0: the nearest integer,
\* a half rounded up
MathRoundPercent(completed, total) == (200 * completed + total) \div (2 * total)

\* Math.floor in its place
MathFloorPercent(completed, total) == (100 * completed) \div total

RECURSIVE tasksByProject_OpenAsTotal(_, _, _)
\* the summary with total++ moved into the else of `if (task.completed)`
tasksByProject_OpenAsTotal(snap, i, acc) ==
    IF i > Len(snap) THEN acc
    ELSE LET task == snap[i]
             projectId == task.projectId
             old == IF projectId \in DOMAIN acc THEN acc[projectId]
                    ELSE [total |-> 0, completed |-> 0, tasks |-> <<>>]
             new == [total |-> old.total + (IF Truthy(task.completed) THEN 0 ELSE 1),
                     completed |-> old.completed + (IF Truthy(task.completed) THEN 1 ELSE 0),
                     tasks |-> Append(old.tasks, task)]
         IN  tasksByProject_OpenAsTotal(snap, i + 1,
                 [k \in DOMAIN acc \cup {projectId} |->
                     IF k = projectId THEN new ELSE acc[k]])

RECURSIVE tasksByProject(_, _, _)
\* ProjectsScreen.js: the forEach that fills tasksByProject, from document i on
tasksByProject(snap, i, acc) ==
    IF i > Len(snap) THEN acc
    ELSE LET task == snap[i]
             projectId == task.projectId
             old == IF projectId \in DOMAIN acc THEN acc[projectId]
                    ELSE [total |-> 0, completed |-> 0, tasks |-> <<>>]
             new == [total |-> old.total + 1,
                     completed |-> old.completed + (IF Truthy(task.completed) THEN 1 ELSE 0),
                     tasks |-> Append(old.tasks, task)]
         IN  tasksByProject(snap, i + 1,
                 [k \in DOMAIN acc \cup {projectId} |->
                     IF k = projectId THEN new ELSE acc[k]])

\* ProjectsScreen.js calculateProgress with Math.floor for Math.round
calculateProgress_Floor(projectId) ==
    IF projectId \notin DOMAIN projectTasks THEN 0
    ELSE IF projectTasks[projectId].total = 0 THEN 0
    ELSE MathFloorPercent(projectTasks[projectId].completed, projectTasks[projectId].total)

\* ProjectsScreen.js calculateProgress
calculateProgress(projectId) ==
    IF projectId \notin DOMAIN projectTasks THEN 0
    ELSE IF projectTasks[projectId].total = 0 THEN 0
    ELSE MathRoundPercent(projectTasks[projectId].completed, projectTasks[projectId].total)

\* TasksScreen.js calculateProgress
calculateProgressTasksScreen ==
    IF Len(tasks) = 0 THEN 0
    ELSE MathRoundPercent(Len(SelectSeq(tasks, LAMBDA task : Truthy(task.completed))),
                          Len(tasks))

RECURSIVE counts(_, _, _)
\* part_009: the forEach that fills counts, from document i on
counts(snap, i, acc) ==
    IF i > Len(snap) THEN acc
    ELSE LET data == snap[i]
             projectId == data.projectId
             old == IF projectId \in DOMAIN acc THEN acc[projectId]
                    ELSE [total |-> 0, completed |-> 0]
             new == [total |-> old.total + 1,
                     completed |-> old.completed + (IF Truthy(data.completed) THEN 1 ELSE 0)]
         IN  IF projectId # NoProject
             THEN counts(snap, i + 1,
                      [k \in DOMAIN acc \cup {projectId} |->
                          IF k = projectId THEN new ELSE acc[k]])
             ELSE counts(snap, i + 1, acc)

\* part_009: taskCounts after the callback has run on snap: setTaskCounts(counts)
afterAllTasksSnapshot(prev, snap) == counts(snap, 1, EmptyObject)

(***************************************************************************)
(* TasksScreen.js: the comparator and Array.prototype.sort.                *)
(***************************************************************************)
\* String.prototype.toLowerCase on the priority strings of the model
toLowerCase(s) ==
    CASE s = "Medium" -> "medium"
      [] OTHER -> s

\* const priorityOrder = { urgent: 0, medium: 1, low: 2 }
priorityOrder == [urgent |-> 0, medium |-> 1, low |-> 2]

\* the names a plain object inherits from Object.prototype that are their
\* own lower case
ObjectPrototypeKeys == {"constructor", "__proto__"}

\* a number, or the object found under an inherited name
Number(n) == [kind |-> "number", n |-> n, key |-> ""]
Inherited(key) == [kind |-> "object", n |-> 0, key |-> key]

\* a.priority?.toLowerCase(): undefined when the field is missing
priorityKey(task) ==
    IF task.priority.kind = "undefined" THEN "undefined" ELSE toLowerCase(task.priority.text)

\* priorityOrder[a.priority?.toLowerCase()] ?? 3: the property read follows
\* the prototype chain, and ?? replaces only null and undefined
Priority(task) ==
    IF priorityKey(task) \in DOMAIN priorityOrder
    THEN Number(priorityOrder[priorityKey(task)])
    ELSE IF priorityKey(task) \in ObjectPrototypeKeys
    THEN Inherited(priorityKey(task))
    ELSE Number(3)

\* what the comparator returns: a number or NaN
Returned(v) == [isNaN |-> FALSE, value |-> v]
NaN == [isNaN |-> TRUE, value |-> 0]

\* createdAt.toDate().getTime()
getTime(createdAt) == ToDate(createdAt).date.t

\* TasksScreen.js: the function passed to tasksData.sort
compare(a, b) ==
    IF a.completed # b.completed
    THEN Returned(IF Truthy(a.completed) THEN 1 ELSE -1)
    ELSE IF Priority(a) # Priority(b)
    THEN (IF Priority(a).kind = "number" /\ Priority(b).kind = "number"
          THEN Returned(Priority(a).n - Priority(b).n)
          ELSE NaN)
    ELSE IF Truthy(a.createdAt) /\ Truthy(b.createdAt)
    THEN Returned(getTime(b.createdAt) - getTime(a.createdAt))
    ELSE Returned(0)

\* ECMAScript SortCompare: the comparator's result as a number, NaN as +0
SortCompare(a, b) == IF compare(a, b).isNaN THEN 0 ELSE compare(a, b).value

RECURSIVE RunEnd(_, _, _)
\* the last index of the run that starts at 1 and is being extended at i
RunEnd(a, isDescending, i) ==
    IF i > Len(a) THEN Len(a)
    ELSE IF (SortCompare(a[i], a[i - 1]) < 0) = isDescending
    THEN RunEnd(a, isDescending, i + 1)
    ELSE i - 1

RECURSIVE Reverse(_)
Reverse(a) == IF a = <<>> THEN <<>> ELSE Append(Reverse(Tail(a)), Head(a))

RECURSIVE BinarySearch(_, _, _, _)
\* where the pivot goes among a[left .. right-1]
BinarySearch(a, pivot, left, right) ==
    IF left < right
    THEN IF SortCompare(pivot, a[left + (right - left) \div 2]) < 0
         THEN BinarySearch(a, pivot, left, left + (right - left) \div 2)
         ELSE BinarySearch(a, pivot, left + (right - left) \div 2 + 1, right)
    ELSE left

\* a with the element at index from moved to index to <= from
Move(a, from, to) ==
    [i \in 1..Len(a) |->
        IF i < to \/ i > from THEN a[i]
        ELSE IF i = to THEN a[from]
        ELSE a[i - 1]]

RECURSIVE BinaryInsertionSort(_, _)
\* a[1 .. start-1] is sorted; insert the elements from start on
BinaryInsertionSort(a, start) ==
    IF start > Len(a) THEN a
    ELSE BinaryInsertionSort(Move(a, start, BinarySearch(a, a[start], 1, start)), start + 1)

\* an array shorter than 64 under TimSort: the leading run is made ascending
\* and the rest is inserted by binary search
TimSort(a) ==
    IF Len(a) < 2 THEN a
    ELSE LET isDescending == SortCompare(a[2], a[1]) < 0
             runLength == RunEnd(a, isDescending, 3)
             made == IF isDescending
                     THEN Reverse(SubSeq(a, 1, runLength)) \o SubSeq(a, runLength + 1, Len(a))
                     ELSE a
         IN  BinaryInsertionSort(made, runLength + 1)

RECURSIVE LinearSearch(_, _, _)
\* where the pivot goes when the sorted part is scanned from its right end
LinearSearch(a, pivot, right) ==
    IF right > 1 /\ SortCompare(pivot, a[right - 1]) < 0
    THEN LinearSearch(a, pivot, right - 1)
    ELSE right

RECURSIVE InsertionSort(_, _)
\* the stable insertion sort that scans leftwards
InsertionSort(a, start) ==
    IF start > Len(a) THEN a
    ELSE InsertionSort(Move(a, start, LinearSearch(a, a[start], start)), start + 1)

\* Array.prototype.sort with this comparator: what an engine may produce
sort(a) == {TimSort(a), InsertionSort(a, 2)}

(***************************************************************************)
(* The task listeners of ProjectsScreen, TasksScreen and part_009.         *)
(***************************************************************************)
\* ProjectsScreen.js: the callback of the tasks listener
TasksSnapshotProjectsScreen(snap) ==
    /\ screen = "ProjectsScreen"
    /\ allTasksSnap' = snap
    /\ projectTasks' = tasksByProject(snap, 1, EmptyObject)
    /\ UNCHANGED <<navVars, listVars, tasksCollection,
                   storeVars, screen, tz, projectsSnap, tasksSnap, deadlines, projects, selectedDate,
                   month, year, uncaught, taskCounts, tasks>>

\* part_009: the callback of the all-tasks listener
AllTasksSnapshotP9(snap) ==
    /\ screen = "P9"
    /\ allTasksSnap' = snap
    /\ taskCounts' = afterAllTasksSnapshot(taskCounts, snap)
    /\ UNCHANGED <<navVars, listVars, tasksCollection,
                   storeVars, screen, tz, projectsSnap, tasksSnap, deadlines, projects, selectedDate,
                   month, year, uncaught, projectTasks, tasks>>

\* TasksScreen.js: the callback of the tasks listener
TasksSnapshotTasksScreen(snap) ==
    /\ screen = "TasksScreen"
    /\ allTasksSnap' = snap
    /\ tasks' \in sort(snap)
    /\ isRefreshing' = FALSE
    /\ awaitingFirst' = FALSE
    /\ UNCHANGED <<navVars, forceRefresh, toggled, tasksCollection,
                   storeVars, screen, tz, projectsSnap, tasksSnap, deadlines, projects, selectedDate,
                   month, year, uncaught, taskCounts, projectTasks>>

OnTasksProjectsScreen ==
    \E snap \in ProgressCollections(allTasksSnap) : TasksSnapshotProjectsScreen(snap)

OnAllTasksP9 == \E snap \in ProgressCollections(allTasksSnap) : AllTasksSnapshotP9(snap)

OnTasksTasksScreen ==
    \E snap \in SortCollections(allTasksSnap) : TasksSnapshotTasksScreen(snap)

OnProjectTasksScreen ==
    \E snap \in ProjectCollections(allTasksSnap) : TasksSnapshotTasksScreen(snap)

NextProgress == OnTasksProjectsScreen \/ OnAllTasksP9 \/ OnProjectTasksScreen

\* the three task listeners, each on the screen that registers it, under
\* result sets that differ in projectId and completed
SpecProgress == Init /\ [][NextProgress]_vars

NextTasks == OnTasksProjectsScreen \/ OnAllTasksP9 \/ OnTasksTasksScreen

\* the same listeners, the one of TasksScreen under result sets that differ
\* in completed, priority and createdAt
SpecTasks == Init /\ [][NextTasks]_vars

(***************************************************************************)
(* ProjectsScreen.js with its TasksScreen and AddTaskScreen modals: the    *)
(* handlers that write to Firestore.  A deleteDoc or addDoc is issued by   *)
(* its handler and settles (fulfils or rejects) in a later step.           *)
(***************************************************************************)
MaxStoreTasks == 2   \* the task documents ever created in the store model

\* what the tasks query delivers now: the documents in id order
StoreTasks ==
    [i \in 1..Cardinality(dbTasks) |->
        CHOOSE t \in dbTasks : t.id = Ascending({u.id : u \in dbTasks})[i]]

\* what the projects query delivers now
StoreProjects ==
    [i \in 1..Cardinality(dbProjects) |-> ProjectDoc(Ascending(dbProjects)[i], NullValue)]

\* the ids of the projects ProjectsScreen lists
ListedProjects == {projects[i].id : i \in 1..Len(projects)}

\* ProjectsScreen.js: the callback of the projects listener
ProjectsSnapshotProjectsScreen(snap) ==
    /\ screen = "ProjectsScreen"
    /\ projects' = snap
    /\ isRefreshing' = FALSE
    /\ awaitingFirst' = FALSE
    /\ UNCHANGED <<navVars, forceRefresh, toggled, tasksCollection,
                   storeVars, screen, tz, projectsSnap, tasksSnap, deadlines, selectedDate,
                   month, year, uncaught, taskCounts, projectTasks, tasks, allTasksSnap>>

handleViewTasks(project) ==
    /\ screen = "ProjectsScreen"
    /\ selectedProject = NoProject
    /\ project \in ListedProjects
    /\ selectedProject' = project
    /\ UNCHANGED <<dbProjects, dbTasks, nextTaskId, deletion, alert>>
    /\ UNCHANGED <<navVars, listVars, tasksCollection,
                   screen, tz, projectsSnap, tasksSnap, deadlines, projects, selectedDate,
                   month, year, uncaught, taskCounts, projectTasks, tasks, allTasksSnap>>

handleBackFromTasks ==
    /\ screen = "ProjectsScreen"
    /\ selectedProject # NoProject
    /\ selectedProject' = NoProject
    /\ UNCHANGED <<dbProjects, dbTasks, nextTaskId, deletion, alert>>
    /\ UNCHANGED <<navVars, listVars, tasksCollection,
                   screen, tz, projectsSnap, tasksSnap, deadlines, projects, selectedDate,
                   month, year, uncaught, taskCounts, projectTasks, tasks, allTasksSnap>>

\* AddTaskScreen.js handleSaveTask for the project TasksScreen shows, with a
\* valid form and a signed-in user; ok: addDoc fulfils
handleSaveTask(ok) ==
    /\ screen = "ProjectsScreen"
    /\ selectedProject # NoProject
    /\ nextTaskId <= MaxStoreTasks
    /\ IF ok
       THEN /\ dbTasks' = dbTasks \cup {Task(nextTaskId, selectedProject, Boolean(FALSE),
                                            Text("medium"), Value("timestamp", TRUE, 1))}
            /\ nextTaskId' = nextTaskId + 1
            /\ alert' = "Success!"
       ELSE /\ alert' = "Creation Error"
            /\ UNCHANGED <<dbTasks, nextTaskId>>
    /\ UNCHANGED <<dbProjects, selectedProject, deletion>>
    /\ UNCHANGED <<navVars, listVars, tasksCollection,
                   screen, tz, projectsSnap, tasksSnap, deadlines, projects, selectedDate,
                   month, year, uncaught, taskCounts, projectTasks, tasks, allTasksSnap>>

\* TasksScreen.js performTaskDelete; ok: deleteDoc fulfils
performTaskDelete(task, ok) ==
    /\ screen = "ProjectsScreen"
    /\ selectedProject # NoProject
    /\ task \in dbTasks
    /\ task.projectId = selectedProject
    /\ IF ok
       THEN dbTasks' = dbTasks \ {task} /\ alert' = "Success"
       ELSE alert' = "Delete Error" /\ UNCHANGED dbTasks
    /\ UNCHANGED <<dbProjects, nextTaskId, selectedProject, deletion>>
    /\ UNCHANGED <<navVars, listVars, tasksCollection,
                   screen, tz, projectsSnap, tasksSnap, deadlines, projects, selectedDate,
                   month, year, uncaught, taskCounts, projectTasks, tasks, allTasksSnap>>

\* projectTasks[project.id]?.tasks || [], as the ids of the tasks
projectTaskList(project) ==
    IF project \in DOMAIN projectTasks
    THEN {projectTasks[project].tasks[i].id : i \in 1..Len(projectTasks[project].tasks)}
    ELSE {}

\* ProjectsScreen.js performProjectDelete up to its first await: a deleteDoc
\* is issued for every task of projectTaskList (for the project itself when
\* the list is empty)
performProjectDelete(project) ==
    /\ screen = "ProjectsScreen"
    /\ selectedProject = NoProject
    /\ project \in ListedProjects
    /\ deletion.pc \in {"idle", "returned"}
    /\ deletion.pending = {}
    /\ deletion' = [pc |-> IF projectTaskList(project) = {} THEN "awaitProject"
                           ELSE "awaitTasks",
                    project |-> project,
                    issued |-> projectTaskList(project),
                    pending |-> projectTaskList(project),
                    failed |-> {}, result |-> "none", alert |-> ""]
    /\ UNCHANGED <<dbProjects, dbTasks, nextTaskId, selectedProject, alert>>
    /\ UNCHANGED <<navVars, listVars, tasksCollection,
                   screen, tz, projectsSnap, tasksSnap, deadlines, projects, selectedDate,
                   month, year, uncaught, taskCounts, projectTasks, tasks, allTasksSnap>>

\* the handler without its try/catch: the rejection leaves the handler
catchDeleteError_None(d) == [d EXCEPT !.pc = "returned", !.result = "threw"]

\* performProjectDelete: catch (error) { Alert.alert("Delete Error", ...) }
catchDeleteError(d) ==
    [d EXCEPT !.pc = "returned", !.result = "error", !.alert = "Delete Error"]

\* performProjectDelete after the deleteDoc of task id has settled
afterTaskDeleteSettled(d, id, ok) ==
    LET settled == [d EXCEPT !.pending = @ \ {id},
                             !.failed = IF ok THEN @ ELSE @ \cup {id}]
    IN  IF d.pc # "awaitTasks" THEN settled
        ELSE IF ~ok THEN catchDeleteError(settled)
        ELSE IF settled.pending = {} THEN [settled EXCEPT !.pc = "awaitProject"]
        ELSE settled

\* a deleteDoc that performProjectDelete issued for a task settles
TaskDeleteSettles(id, ok) ==
    /\ id \in deletion.pending
    /\ dbTasks' = IF ok THEN {t \in dbTasks : t.id # id} ELSE dbTasks
    /\ deletion' = afterTaskDeleteSettled(deletion, id, ok)
    /\ alert' = IF deletion'.alert # deletion.alert THEN deletion'.alert ELSE alert
    /\ uncaught' = (uncaught \/ deletion'.result = "threw")
    /\ UNCHANGED <<dbProjects, nextTaskId, selectedProject>>
    /\ UNCHANGED <<navVars, listVars, tasksCollection,
                   screen, tz, projectsSnap, tasksSnap, deadlines, projects, selectedDate,
                   month, year, taskCounts, projectTasks, tasks, allTasksSnap>>

\* the deleteDoc of the project document settles
ProjectDeleteSettles(ok) ==
    /\ deletion.pc = "awaitProject"
    /\ dbProjects' = IF ok THEN dbProjects \ {deletion.project} ELSE dbProjects
    /\ deletion' = IF ok THEN [deletion EXCEPT !.pc = "returned", !.result = "ok"]
                   ELSE catchDeleteError(deletion)
    /\ alert' = IF deletion'.alert # deletion.alert THEN deletion'.alert ELSE alert
    /\ uncaught' = (uncaught \/ deletion'.result = "threw")
    /\ UNCHANGED <<dbTasks, nextTaskId, selectedProject>>
    /\ UNCHANGED <<navVars, listVars, tasksCollection,
                   screen, tz, projectsSnap, tasksSnap, deadlines, projects, selectedDate,
                   month, year, taskCounts, projectTasks, tasks, allTasksSnap>>

OnStoreProjects == ProjectsSnapshotProjectsScreen(StoreProjects)
OnStoreTasks == TasksSnapshotProjectsScreen(StoreTasks)
OnViewTasks == \E project \in ProjectIds : handleViewTasks(project)
OnSaveTask == \E ok \in BOOLEAN : handleSaveTask(ok)
OnTaskDelete == \E task \in dbTasks, ok \in BOOLEAN : performTaskDelete(task, ok)
OnProjectDelete == \E project \in ProjectIds : performProjectDelete(project)
OnTaskDeleteSettles == \E id \in 1..MaxStoreTasks, ok \in BOOLEAN : TaskDeleteSettles(id, ok)
OnProjectDeleteSettles == \E ok \in BOOLEAN : ProjectDeleteSettles(ok)

NextStore ==
    \/ OnStoreProjects \/ OnStoreTasks \/ OnViewTasks \/ handleBackFromTasks
    \/ OnSaveTask \/ OnTaskDelete \/ OnProjectDelete
    \/ OnTaskDeleteSettles \/ OnProjectDeleteSettles

InitStore == Init /\ screen = "ProjectsScreen" /\ tz = 0

\* ProjectsScreen with its modals over a Firestore that holds every project
\* and no task at the start
SpecStore == InitStore /\ [][NextStore]_vars

(***************************************************************************)
(* Pull-to-refresh in ProjectsScreen.js and TasksScreen.js, and the        *)
(* completion toggle of TasksScreen.js.  The user is signed in; TasksScreen *)
(* shows project 1.  A listener is called with the first result set after  *)
(* it is registered, and again whenever the result set has changed.        *)
(***************************************************************************)
MaxToggles == 3     \* the fulfilled toggles of one task
MaxRefreshes == 2   \* the increments of forceRefresh

\* the task document with the id, as stored
StoredTask(id) == CHOOSE t \in dbTasks : t.id = id

\* !task.completed
Not(v) == Boolean(~Truthy(v))

\* completed: !task.completed, of the task object the list rendered
toggledValue(task) == Not(task.completed)

\* AddTaskScreen.js handleSaveTask for the project TasksScreen shows, when
\* addDoc fulfils: new tasks start as incomplete
TaskAdded ==
    /\ screen = "TasksScreen"
    /\ nextTaskId <= MaxStoreTasks
    /\ dbTasks' = dbTasks \cup {Task(nextTaskId, 1, Boolean(FALSE), Text("medium"),
                                     Value("timestamp", TRUE, nextTaskId))}
    /\ nextTaskId' = nextTaskId + 1
    /\ toggled' = [id \in DOMAIN toggled \cup {nextTaskId} |->
                      IF id = nextTaskId THEN <<>> ELSE toggled[id]]
    /\ UNCHANGED <<dbProjects, selectedProject, deletion, alert>>
    /\ UNCHANGED <<navVars, screen, screenVars, isRefreshing, forceRefresh, awaitingFirst>>

\* TasksScreen.js handleToggleTask(task) for a task of the rendered list;
\* ok: updateDoc fulfils; web: Platform.OS === 'web', where triggerRefresh()
\* makes the effect register its listener anew
handleToggleTask(task, ok, web) ==
    /\ screen = "TasksScreen"
    /\ \E i \in 1..Len(tasks) : tasks[i] = task
    /\ Len(toggled[task.id]) < MaxToggles
    /\ (ok /\ web) => forceRefresh < MaxRefreshes
    /\ IF ok
       THEN /\ dbTasks' = (dbTasks \ {StoredTask(task.id)})
                            \cup {[StoredTask(task.id) EXCEPT !.completed = toggledValue(task)]}
            /\ toggled' = [toggled EXCEPT ![task.id] = Append(@, StoredTask(task.id).completed)]
            /\ forceRefresh' = IF web THEN forceRefresh + 1 ELSE forceRefresh
            /\ awaitingFirst' = (web \/ awaitingFirst)
            /\ UNCHANGED alert
       ELSE /\ alert' = "Update Error"
            /\ UNCHANGED <<dbTasks, toggled, forceRefresh, awaitingFirst>>
    /\ UNCHANGED <<dbProjects, nextTaskId, selectedProject, deletion>>
    /\ UNCHANGED <<navVars, screen, screenVars, isRefreshing>>

\* TasksScreen.js onRefresh: setIsRefreshing(true); triggerRefresh()
onRefresh ==
    /\ screen = "TasksScreen"
    /\ forceRefresh < MaxRefreshes
    /\ isRefreshing' = TRUE
    /\ forceRefresh' = forceRefresh + 1
    /\ awaitingFirst' = TRUE
    /\ UNCHANGED <<navVars, storeVars, screen, screenVars, toggled>>

\* ProjectsScreen.js onRefresh: setIsRefreshing(true)
onRefreshProjectsScreen ==
    /\ screen = "ProjectsScreen"
    /\ ~awaitingFirst
    /\ isRefreshing' = TRUE
    /\ UNCHANGED <<navVars, storeVars, screen, screenVars, forceRefresh, awaitingFirst, toggled>>

\* a project document is added or deleted in the backend
ProjectsChange ==
    /\ screen = "ProjectsScreen"
    /\ dbProjects' \in (SUBSET ProjectIds) \ {dbProjects}
    /\ UNCHANGED <<dbTasks, nextTaskId, selectedProject, deletion, alert>>
    /\ UNCHANGED <<navVars, screen, screenVars, listVars>>

\* Firestore calls the tasks listener of TasksScreen
TasksListenerFires ==
    /\ awaitingFirst \/ allTasksSnap # StoreTasks
    /\ TasksSnapshotTasksScreen(StoreTasks)

\* Firestore calls the projects listener of ProjectsScreen
ProjectsListenerFires ==
    /\ awaitingFirst \/ projects # StoreProjects
    /\ ProjectsSnapshotProjectsScreen(StoreProjects)

OnToggleTask ==
    \E i \in 1..Len(tasks), ok \in BOOLEAN, web \in BOOLEAN : handleToggleTask(tasks[i], ok, web)

NextList ==
    \/ TaskAdded \/ OnToggleTask \/ onRefresh \/ onRefreshProjectsScreen
    \/ ProjectsChange \/ TasksListenerFires \/ ProjectsListenerFires

InitList == Init /\ screen \in {"ProjectsScreen", "TasksScreen"} /\ tz = 0

\* either screen with its listener; a registered listener that has a result
\* set to deliver is called in the end
SpecList ==
    InitList /\ [][NextList]_vars
        /\ WF_vars(TasksListenerFires) /\ WF_vars(ProjectsListenerFires)

(***************************************************************************)
(* AppNavigator: the authentication flow and the sidebar.  Screen          *)
(* "AppNavigator" is src/AppNavigator.js, screen "P0" is part_000, the     *)
(* version that restores the session from AsyncStorage.                    *)
(***************************************************************************)
MaxPresses == 2   \* the presses of the menu button
MaxCallbacks == 2 \* the onAuthStateChanged callbacks at an await at one time

\* the uids of the accounts that sign in
Uids == {"u1", "u2"}

\* getStoredAuthState that reports no stored session
getStoredAuthState_Nothing(st) ==
    [isAuthenticated |-> FALSE, userId |-> "", userPreferences |-> ""]

\* authStorage.js getStoredAuthState: never throws
getStoredAuthState(st) ==
    IF st.authState = "authenticated" /\ st.userId # "" /\ st.userPreferences # "corrupt"
    THEN [isAuthenticated |-> TRUE, userId |-> st.userId,
          userPreferences |-> st.userPreferences]
    ELSE [isAuthenticated |-> FALSE, userId |-> "", userPreferences |-> ""]

\* authStorage.js storeAuthState(user, 'email')
storeAuthState(st, uid) == Storage("authenticated", uid, "object")

\* authStorage.js clearAuthState
clearAuthState(st) == Storage("", "", "")

\* the user object AppNavigator holds
User(uid, source) == [uid |-> uid, source |-> source]

\* openSidebar with setShowSidebar(prev => prev)
openSidebar_Keep(prev) == prev

\* openSidebar={() => setShowSidebar(true)}
openSidebar(prev) == TRUE

\* the navigator is rendered and shows a screen with a Header
HeaderShown == ~isLoading /\ isAuthenticated

\* Header.js: the menu button is pressed; onPress is the onMenuPress prop,
\* which every screen sets to its openSidebar prop
PressMenu ==
    /\ screen \in {"AppNavigator", "P0"}
    /\ HeaderShown
    /\ ~showSidebar
    /\ menuPresses < MaxPresses
    /\ menuPresses' = menuPresses + 1
    /\ showSidebar' = openSidebar(showSidebar)
    /\ UNCHANGED <<isAuthenticated, isLoading, user, storage, authPc, callback, isMounted,
                   firebaseUser, delivered, route>>
    /\ UNCHANGED <<storeVars, screen, screenVars, listVars, signOutPc>>

\* SidebarMenu onClose
onClose ==
    /\ screen \in {"AppNavigator", "P0"}
    /\ showSidebar
    /\ showSidebar' = FALSE
    /\ UNCHANGED <<isAuthenticated, isLoading, user, storage, authPc, callback, isMounted,
                   firebaseUser, delivered, route, menuPresses>>
    /\ UNCHANGED <<storeVars, screen, screenVars, listVars, signOutPc>>

\* SidebarMenu handleNavigation(item): onClose(), then the navigator's onNavigate
handleNavigation(item) ==
    /\ screen \in {"AppNavigator", "P0"}
    /\ showSidebar
    /\ showSidebar' = FALSE
    /\ route' = CASE item \in {"projects", "home"} -> "Projects"
                  [] item = "calendar" -> "Calendar"
                  [] item = "profile" -> "Profile"
                  [] item = "settings" -> "Settings"
    /\ UNCHANGED <<isAuthenticated, isLoading, user, storage, authPc, callback, isMounted,
                   firebaseUser, delivered, menuPresses>>
    /\ UNCHANGED <<storeVars, screen, screenVars, listVars, signOutPc>>

\* SidebarMenu.js handleSignOut: onClose(), then signOut(auth)
handleSignOut ==
    /\ screen = "AppNavigator"
    /\ showSidebar
    /\ showSidebar' = FALSE
    /\ firebaseUser' = ""
    /\ UNCHANGED <<isAuthenticated, isLoading, user, storage, authPc, callback, isMounted,
                   delivered, route, menuPresses>>
    /\ UNCHANGED <<storeVars, screen, screenVars, listVars, signOutPc>>

\* part_005 handleSignOut up to its first await: onClose(), then
\* clearAuthState() is called
handleSignOutP5 ==
    /\ screen = "P0"
    /\ showSidebar
    /\ signOutPc = "idle"
    /\ showSidebar' = FALSE
    /\ signOutPc' = "clearAuthState"
    /\ UNCHANGED <<isAuthenticated, isLoading, user, storage, authPc, callback, isMounted,
                   firebaseUser, delivered, route, menuPresses>>
    /\ UNCHANGED <<storeVars, screen, screenVars, listVars>>

\* clearAuthState that passes its error on: the handler's catch block runs
\* and the handler ends
afterClearAuthState_Throws(ok) == IF ok THEN "signOut" ELSE "idle"

\* part_005: clearAuthState() catches its own error and returns true or
\* false; the handler goes on to signOut(auth) either way
afterClearAuthState(ok) == "signOut"

\* part_005: await clearAuthState() settles; ok: the items were removed,
\* otherwise one of its removeItem calls rejected, after none, one, two or
\* three of the items had been removed
ClearAuthStateSettlesP5(ok) ==
    /\ screen = "P0"
    /\ signOutPc = "clearAuthState"
    /\ IF ok
       THEN storage' = clearAuthState(storage)
       ELSE storage' \in {storage,
                          [storage EXCEPT !.authState = ""],
                          [storage EXCEPT !.authState = "", !.userId = ""],
                          clearAuthState(storage)}
    /\ signOutPc' = afterClearAuthState(ok)
    /\ UNCHANGED <<isAuthenticated, isLoading, showSidebar, user, authPc, callback, isMounted,
                   firebaseUser, delivered, route, menuPresses>>
    /\ UNCHANGED <<storeVars, screen, screenVars, listVars>>

\* part_005: await signOut(auth) settles; its rejection is caught and logged
SignOutSettlesP5(ok) ==
    /\ screen = "P0"
    /\ signOutPc = "signOut"
    /\ firebaseUser' = IF ok THEN "" ELSE firebaseUser
    /\ signOutPc' = "idle"
    /\ UNCHANGED <<isAuthenticated, isLoading, showSidebar, user, storage, authPc, callback,
                   isMounted, delivered, route, menuPresses>>
    /\ UNCHANGED <<storeVars, screen, screenVars, listVars>>

\* AuthScreen: a sign-in as uid succeeds
SignIn(uid) ==
    /\ screen \in {"AppNavigator", "P0"}
    /\ ~isLoading
    /\ ~isAuthenticated
    /\ firebaseUser = ""
    /\ firebaseUser' = uid
    /\ UNCHANGED <<isAuthenticated, isLoading, showSidebar, user, storage, authPc, callback,
                   isMounted, delivered, route, menuPresses>>
    /\ UNCHANGED <<storeVars, screen, screenVars, listVars, signOutPc>>

\* src/AppNavigator.js: the onAuthStateChanged callback
AuthStateChanged ==
    /\ screen = "AppNavigator"
    /\ authPc = "listening"
    /\ delivered # firebaseUser
    /\ delivered' = firebaseUser
    /\ isAuthenticated' = (firebaseUser # "")
    /\ isLoading' = FALSE
    /\ UNCHANGED <<showSidebar, user, storage, authPc, callback, isMounted, firebaseUser,
                   route, menuPresses>>
    /\ UNCHANGED <<storeVars, screen, screenVars, listVars, signOutPc>>

\* part_000 initializeAuth from the moment getStoredAuthState() has resolved:
\* the session is restored and the listener registered; throws: the
\* registration throws and the catch block runs
initializeAuth(throws) ==
    LET storedAuth == getStoredAuthState(storage)
        restore == storedAuth.isAuthenticated /\ storedAuth.userPreferences # "" /\ isMounted
    IN  /\ screen = "P0"
        /\ authPc = "reading"
        /\ user' = IF restore THEN User(storedAuth.userId, "storage") ELSE user
        /\ IF throws
           THEN /\ authPc' = "failed"
                /\ isLoading' = IF isMounted THEN FALSE ELSE isLoading
                /\ isAuthenticated' = IF isMounted THEN FALSE ELSE isAuthenticated
           ELSE /\ authPc' = "listening"
                /\ isAuthenticated' = (restore \/ isAuthenticated)
                /\ UNCHANGED isLoading
        /\ UNCHANGED <<showSidebar, storage, callback, isMounted, firebaseUser, delivered,
                       route, menuPresses>>
        /\ UNCHANGED <<storeVars, screen, screenVars, listVars, signOutPc>>

\* a callback at an await: where it stands, the user it was called with and
\* the userAuthState item it has read
Callback(pc, uid, authState) == [pc |-> pc, user |-> uid, authState |-> authState]

\* the callbacks at an await without the i-th
Completed(i) == [j \in 1..(Len(callback) - 1) |-> IF j < i THEN callback[j] ELSE callback[j + 1]]

\* part_000: the onAuthStateChanged callback up to its first await; Firebase
\* calls it whether or not an earlier call is still at an await
AuthStateChangedP0 ==
    /\ screen = "P0"
    /\ authPc = "listening"
    /\ Len(callback) < MaxCallbacks
    /\ delivered # firebaseUser
    /\ delivered' = firebaseUser
    /\ IF ~isMounted
       THEN UNCHANGED <<user, isAuthenticated, callback>>
       ELSE IF firebaseUser # ""
       THEN /\ user' = User(firebaseUser, "firebase")
            /\ isAuthenticated' = TRUE
            /\ callback' = Append(callback, Callback("storeAuthState", firebaseUser, ""))
       ELSE /\ callback' = Append(callback, Callback("getStoredAuthState", "", ""))
            /\ UNCHANGED <<user, isAuthenticated>>
    /\ UNCHANGED <<isLoading, showSidebar, storage, authPc, isMounted, firebaseUser,
                   route, menuPresses>>
    /\ UNCHANGED <<storeVars, screen, screenVars, listVars, signOutPc>>

\* part_000, user branch: storeAuthState(user, 'email') has written its
\* items and the callback ends with setIsLoading(false)
StoreAuthStateSettlesP0(i) ==
    /\ screen = "P0"
    /\ i \in 1..Len(callback)
    /\ callback[i].pc = "storeAuthState"
    /\ storage' = storeAuthState(storage, callback[i].user)
    /\ isLoading' = FALSE
    /\ callback' = Completed(i)
    /\ UNCHANGED <<isAuthenticated, showSidebar, user, authPc, isMounted, firebaseUser,
                   delivered, route, menuPresses>>
    /\ UNCHANGED <<storeVars, screen, screenVars, listVars, signOutPc>>

\* part_000, branch without user: getStoredAuthState has read the
\* userAuthState item, the first of its four getItem calls
GetItemAuthStateP0(i) ==
    /\ screen = "P0"
    /\ i \in 1..Len(callback)
    /\ callback[i].pc = "getStoredAuthState"
    /\ callback' = [callback EXCEPT ![i] = Callback("getItem", "", storage.authState)]
    /\ UNCHANGED <<isAuthenticated, isLoading, showSidebar, user, storage, authPc, isMounted,
                   firebaseUser, delivered, route, menuPresses>>
    /\ UNCHANGED <<storeVars, screen, screenVars, listVars, signOutPc>>

\* setUser(null); setIsAuthenticated(false); setIsLoading(false): the end of
\* the branch without user
endWithoutUser(i) ==
    /\ user' = Null
    /\ isAuthenticated' = FALSE
    /\ isLoading' = FALSE
    /\ callback' = Completed(i)

\* part_000, branch without user: getStoredAuthState has read its other
\* items and returned; the callback goes on to clearAuthState() or ends
GetStoredAuthStateReturnsP0(i) ==
    /\ screen = "P0"
    /\ i \in 1..Len(callback)
    /\ callback[i].pc = "getItem"
    /\ IF getStoredAuthState([storage EXCEPT !.authState = callback[i].authState]).isAuthenticated
       THEN /\ callback' = [callback EXCEPT ![i] = Callback("clearAuthState", "", "")]
            /\ UNCHANGED <<user, isAuthenticated, isLoading>>
       ELSE endWithoutUser(i)
    /\ UNCHANGED <<showSidebar, storage, authPc, isMounted, firebaseUser, delivered, route,
                   menuPresses>>
    /\ UNCHANGED <<storeVars, screen, screenVars, listVars, signOutPc>>

\* part_000, branch without user: clearAuthState() has removed its items and
\* the callback ends
ClearAuthStateSettlesP0(i) ==
    /\ screen = "P0"
    /\ i \in 1..Len(callback)
    /\ callback[i].pc = "clearAuthState"
    /\ storage' = clearAuthState(storage)
    /\ endWithoutUser(i)
    /\ UNCHANGED <<showSidebar, authPc, isMounted, firebaseUser, delivered, route,
                   menuPresses>>
    /\ UNCHANGED <<storeVars, screen, screenVars, listVars, signOutPc>>

\* part_000: the effect's cleanup up to unsubscribePromise.then
Unmount ==
    /\ screen = "P0"
    /\ isMounted
    /\ isMounted' = FALSE
    /\ UNCHANGED <<isAuthenticated, isLoading, showSidebar, user, storage, authPc, callback,
                   firebaseUser, delivered, route, menuPresses>>
    /\ UNCHANGED <<storeVars, screen, screenVars, listVars, signOutPc>>

\* part_000: unsubscribePromise.then(unsubscribe => { if (unsubscribe) unsubscribe(); })
\* once initializeAuth has returned the listener's unsubscribe
UnsubscribeP0 ==
    /\ screen = "P0"
    /\ ~isMounted
    /\ authPc = "listening"
    /\ authPc' = "unsubscribed"
    /\ UNCHANGED <<isAuthenticated, isLoading, showSidebar, user, storage, callback, isMounted,
                   firebaseUser, delivered, route, menuPresses>>
    /\ UNCHANGED <<storeVars, screen, screenVars, listVars, signOutPc>>

OnNavigation == \E item \in {"home", "projects", "calendar", "profile", "settings"} :
                    handleNavigation(item)
OnInitializeAuth == \E throws \in BOOLEAN : initializeAuth(throws)
OnSignIn == \E uid \in Uids : SignIn(uid)
OnStoreAuthStateSettles == \E i \in 1..MaxCallbacks : StoreAuthStateSettlesP0(i)
OnGetItemAuthState == \E i \in 1..MaxCallbacks : GetItemAuthStateP0(i)
OnGetStoredAuthStateReturns == \E i \in 1..MaxCallbacks : GetStoredAuthStateReturnsP0(i)
OnClearAuthStateSettles == \E i \in 1..MaxCallbacks : ClearAuthStateSettlesP0(i)

OnClearAuthStateSettlesP5 == \E ok \in BOOLEAN : ClearAuthStateSettlesP5(ok)
OnSignOutSettlesP5 == \E ok \in BOOLEAN : SignOutSettlesP5(ok)

NextNav ==
    \/ PressMenu \/ onClose \/ OnNavigation \/ handleSignOut \/ OnSignIn
    \/ AuthStateChanged \/ OnInitializeAuth \/ AuthStateChangedP0
    \/ OnStoreAuthStateSettles \/ OnGetItemAuthState \/ OnGetStoredAuthStateReturns
    \/ OnClearAuthStateSettles \/ Unmount \/ UnsubscribeP0
    \/ handleSignOutP5 \/ OnClearAuthStateSettlesP5 \/ OnSignOutSettlesP5

InitNav == Init /\ screen \in {"AppNavigator", "P0"} /\ tz = 0

\* either AppNavigator from its mount on
SpecNav == InitNav /\ [][NextNav]_vars

\* the same, where initializeAuth runs to its end and the promise it
\* returned calls its then-callback
SpecNavFair == SpecNav /\ WF_vars(OnInitializeAuth) /\ WF_vars(UnsubscribeP0)

(***************************************************************************)
(* What the claims speak of.                                               *)
(***************************************************************************)
\* the deadline denotes an instant: a valid Date, a parsable string or a
\* Timestamp whose toDate() is a valid Date
IsInstant(v) == v.kind \in {"Date", "string", "timestamp"} /\ v.valid

\* the deadline is null, missing or an unparsable string
IsUnresolvable(v) == v.kind \in {"null", "undefined"} \/ (v.kind = "string" /\ ~v.valid)

\* the YYYY-MM-DD key of the local calendar day of instant t
LocalDayKey(t) == TemplateDayOf((t + tz) \div 24)

\* the index lists the item (type, title) under key
Listed(type, title, key) ==
    /\ key \in DOMAIN deadlines
    /\ \E i \in 1..Len(deadlines[key]) :
          deadlines[key][i].type = type /\ deadlines[key][i].title = title

\* the item (type, title) is in some bucket
ListedSomewhere(type, title) == \E key \in DOMAIN deadlines : Listed(type, title, key)

Docs(snap) == {snap[i] : i \in 1..Len(snap)}

\* C1: every project and task of the latest snapshots whose deadline is an
\* instant is listed under the key of the LOCAL calendar day of that instant,
\* whatever the representation of the instant.
C1_LocalDayKey ==
    /\ \A d \in Docs(projectsSnap) :
          IsInstant(d.deadline) => Listed("Project", d.title, LocalDayKey(d.deadline.t))
    /\ \A d \in Docs(tasksSnap) :
          IsInstant(d.deadline) => Listed("Task", d.title, LocalDayKey(d.deadline.t))

\* C2: a project of the latest project snapshot and a task of the latest
\* task snapshot whose deadlines fall on the same local day are both in that
\* day's list, whichever callback ran last.
C2_SameDayBothListed ==
    \A p \in Docs(projectsSnap), t \in Docs(tasksSnap) :
        (/\ IsInstant(p.deadline)
         /\ IsInstant(t.deadline)
         /\ LocalDayKey(p.deadline.t) = LocalDayKey(t.deadline.t))
        => /\ Listed("Project", p.title, LocalDayKey(p.deadline.t))
           /\ Listed("Task", t.title, LocalDayKey(p.deadline.t))

\* the (key, type, title) triples an index holds
Content(idx) ==
    UNION {{<<k, idx[k][i].type, idx[k][i].title>> : i \in 1..Len(idx[k])} : k \in DOMAIN idx}

\* the triples the latest snapshots produce
Rebuilt ==
    {<<LocalDayKey(d.deadline.t), "Project", d.title>> :
        d \in {x \in Docs(projectsSnap) : IsInstant(x.deadline)}}
    \cup {<<LocalDayKey(d.deadline.t), "Task", d.title>> :
        d \in {x \in Docs(tasksSnap) : IsInstant(x.deadline)}}

\* C3: after any sequence of callbacks the index is the one rebuilt from the
\* latest project snapshot and the latest task snapshot: no stale entry, no
\* day key the latest snapshots do not produce, every entry once.
C3_IndexIsRebuilt ==
    /\ Content(deadlines) = Rebuilt
    /\ \A k \in DOMAIN deadlines :
          /\ Len(deadlines[k]) > 0
          /\ \A i, j \in 1..Len(deadlines[k]) :
                (deadlines[k][i].type = deadlines[k][j].type
                 /\ deadlines[k][i].title = deadlines[k][j].title) => i = j

\* C4: in part_009 an item of the latest snapshot whose deadline is null,
\* undefined or unparsable is in no bucket of the index.
C4_UnresolvableNotListed ==
    screen = "P9" =>
        /\ \A d \in Docs(projectsSnap) :
              IsUnresolvable(d.deadline) => ~ListedSomewhere("Project", d.title)
        /\ \A d \in Docs(tasksSnap) :
              IsUnresolvable(d.deadline) => ~ListedSomewhere("Task", d.title)

\* C4 witness: part_009 has processed a task snapshot that holds a task with
\* the deadline "not-a-date" next to a task that is listed.
C4_Witness ==
    /\ screen = "P9"
    /\ \E d \in Docs(tasksSnap) : d.deadline = NotADate
    /\ \E d \in Docs(tasksSnap) : ListedSomewhere("Task", d.title)

\* C5: no deadline value makes a callback end in an exception: a malformed
\* value resolves to "no date", the rest of the snapshot is processed and the
\* index is updated, so every project of the latest snapshot whose deadline
\* is an instant is listed.
C5_NormalizationNeverThrows ==
    /\ uncaught = FALSE
    /\ \A d \in Docs(projectsSnap) :
          IsInstant(d.deadline) => ListedSomewhere("Project", d.title)

\* the index the bundled screen holds after its callback for `type` has run
\* on the query result over coll
Delivered(prev, type, coll) ==
    IF screen = "CalendarScreen" THEN afterSnapshot(prev, type, coll)
    ELSE IF type = "Task" THEN afterSnapshotP9(prev, type, tasksQueryP9(coll))
    ELSE afterSnapshotP9(prev, type, coll)

\* C9: from every reachable index, delivering a project snapshot (or a task
\* snapshot) and then the same snapshot again gives the index the first
\* delivery gave, day lists in the same order.
C9_RedeliveryIdempotent ==
    /\ \A snap \in DocumentedProjectSnapshots :
          Delivered(Delivered(deadlines, "Project", snap), "Project", snap)
              = Delivered(deadlines, "Project", snap)
    /\ \A coll \in DocumentedTaskCollections :
          Delivered(Delivered(deadlines, "Task", coll), "Task", coll)
              = Delivered(deadlines, "Task", coll)
    /\ \A coll \in DocumentedTaskCollections :
          afterAllTasksSnapshot(afterAllTasksSnapshot(taskCounts, coll), coll)
              = afterAllTasksSnapshot(taskCounts, coll)

\* C9 witness: a day list holds a project and a task, so that a redelivery
\* has entries of the other kind to keep and entries of its own to replace.
C9_Witness ==
    \E k \in DOMAIN deadlines :
        /\ \E i \in 1..Len(deadlines[k]) : deadlines[k][i].type = "Project"
        /\ \E i \in 1..Len(deadlines[k]) : deadlines[k][i].type = "Task"

\* C6: looking up a day with no entries (no day selected, an empty index, a
\* key the index lacks) yields an array, and the array is empty.
C6_LookupEmptyList ==
    /\ selectedDeadlines.kind = "array"
    /\ (selectedDate = Null \/ \A x \in Content(deadlines) : x[1] # selectedDate.iso)
          => selectedDeadlines.list = <<>>

\* C6 witness: the index has entries and the selected day has none.
C6_Witness ==
    /\ selectedDate # Null
    /\ deadlines # EmptyObject
    /\ selectedDate.iso \notin DOMAIN deadlines

\* the documents of the latest task result set that belong to project P
TasksOf(P) == {i \in 1..Len(allTasksSnap) : allTasksSnap[i].projectId = P}

\* those of them whose completed flag is true
CompletedOf(P) == {i \in TasksOf(P) : allTasksSnap[i].completed = Boolean(TRUE)}

\* p is completed / total * 100 rounded to the nearest integer, half up
IsRounded(p, completed, total) ==
    /\ 2 * p * total - total <= 200 * completed
    /\ 200 * completed < 2 * p * total + total

C8_PercentageRange ==
    /\ \A P \in ProjectIds \cup {NoProject} :
          /\ calculateProgress(P) \in 0..100
          /\ P \in DOMAIN projectTasks => projectTasks[P].completed <= projectTasks[P].total
          /\ (screen = "ProjectsScreen" /\ TasksOf(P) = {}) => calculateProgress(P) = 0
    /\ calculateProgressTasksScreen \in 0..100
    /\ (screen = "TasksScreen" /\ allTasksSnap = <<>>) => calculateProgressTasksScreen = 0
    /\ \A P \in DOMAIN taskCounts :
          /\ taskCounts[P].completed <= taskCounts[P].total
          /\ taskCounts[P].completed >= 0

\* C8 witness: ProjectsScreen shows 100 percent for project 2, all of whose
\* tasks are completed, and 0 for project 1, which has none.
C8_Witness ==
    /\ screen = "ProjectsScreen"
    /\ TasksOf(1) = {}
    /\ 1 \notin DOMAIN projectTasks
    /\ Cardinality(CompletedOf(2)) = 2
    /\ calculateProgress(2) = 100
    /\ calculateProgress(1) = 0

\* the rank the ordering rule gives a task: urgent 0, medium 1, low 2,
\* anything else 3, whatever the case of the letters
Rank(task) ==
    IF task.priority.kind = "undefined" THEN 3
    ELSE CASE toLowerCase(task.priority.text) = "urgent" -> 0
           [] toLowerCase(task.priority.text) = "medium" -> 1
           [] toLowerCase(task.priority.text) = "low" -> 2
           [] OTHER -> 3

\* C10: in the list the TasksScreen callback stores, every incomplete task
\* precedes every completed one, and of two tasks of equal completion status
\* the one of lower priority rank comes first.
C10_IncompleteFirstThenRank ==
    \A i, j \in 1..Len(tasks) :
        i < j =>
            /\ ~(Truthy(tasks[i].completed) /\ ~Truthy(tasks[j].completed))
            /\ Truthy(tasks[i].completed) = Truthy(tasks[j].completed)
                  => Rank(tasks[i]) <= Rank(tasks[j])

\* the sign of a number
Sign(n) == IF n < 0 THEN -1 ELSE IF n > 0 THEN 1 ELSE 0

\* C11: on the tasks of a delivered result set the comparator is a consistent
\* total order: compare(a, b) and compare(b, a) have opposite signs or are
\* both zero, comparing equal is transitive, and so the sorted list is the
\* same whatever the engine.
C11_ComparatorConsistent ==
    /\ \A a, b \in Docs(allTasksSnap) :
          Sign(SortCompare(a, b)) = -Sign(SortCompare(b, a))
    /\ \A a, b, c \in Docs(allTasksSnap) :
          (SortCompare(a, b) = 0 /\ SortCompare(b, c) = 0) => SortCompare(a, c) = 0
    /\ screen = "TasksScreen" => Cardinality(sort(allTasksSnap)) = 1

\* C12: two tasks of the stored list with the same completion status and
\* the same priority rank that both have a creation timestamp stand newest
\* first, whatever other tasks the list holds.
C12_NewestFirst ==
    \A i, j \in 1..Len(tasks) :
        (/\ i < j
         /\ tasks[i].completed = tasks[j].completed
         /\ Rank(tasks[i]) = Rank(tasks[j])
         /\ Truthy(tasks[i].createdAt)
         /\ Truthy(tasks[j].createdAt))
        => getTime(tasks[i].createdAt) >= getTime(tasks[j].createdAt)

\* the task documents of project P in the store
StoredTasksOf(P) == {t \in dbTasks : t.projectId = P}

\* C13: the step in which performProjectDelete completes without error
\* leaves neither the project document nor a task document of the project.
C13_DeleteCascades ==
    [][(deletion'.result = "ok" /\ deletion.result # "ok")
          => /\ deletion'.project \notin dbProjects'
             /\ \A t \in dbTasks' : t.projectId # deletion'.project]_vars

\* C14: once no deleteDoc is in flight and no handler is between its steps,
\* the projectId of every task document is the id of a project document.
C14_NoOrphanTask ==
    (deletion.pc \in {"idle", "returned"} /\ deletion.pending = {})
        => \A t \in dbTasks : t.projectId \in dbProjects

\* C20: performProjectDelete deletes the project document only when every
\* deleteDoc it issued for a task has fulfilled; when one of them rejects,
\* the project document stays, the "Delete Error" alert is raised and no
\* exception leaves the handler.
C20_ProjectDeletedLast ==
    /\ [](deletion.failed # {}
            => /\ deletion.pc = "returned"
               /\ deletion.result = "error"
               /\ deletion.alert = "Delete Error"
               /\ uncaught = FALSE)
    /\ [][dbProjects' # dbProjects
            => /\ dbProjects' = dbProjects \ {deletion.project}
               /\ deletion.pending = {}
               /\ deletion.failed = {}
               /\ \A id \in deletion.issued : \A t \in dbTasks : t.id # id]_vars

\* C20 witness: of two task deletions issued one has rejected and the other
\* has settled, and the handler has returned.
C20_Witness ==
    /\ Cardinality(deletion.issued) = 2
    /\ Cardinality(deletion.failed) = 1
    /\ deletion.pending = {}
    /\ deletion.pc = "returned"


\* C15: a press of the Header's menu button calls onMenuPress, once, and with
\* onMenuPress wired to AppNavigator's openSidebar the sidebar is visible
\* after it (showSidebar = true).
C15_MenuPressOpensSidebar ==
    [][menuPresses' # menuPresses
          => /\ menuPresses' = menuPresses + 1
             /\ showSidebar' = TRUE]_vars

\* the menu button has been pressed and the sidebar is shown
C15_Witness == menuPresses = 1 /\ showSidebar /\ screen = "AppNavigator"

\* the stored state getStoredAuthState reports as authenticated, with preferences
ValidStored(st) ==
    st.authState = "authenticated" /\ st.userId # "" /\ st.userPreferences = "object"

\* C16: at startup AppNavigator reads the stored authentication state and
\* then registers the Firebase listener; with a valid stored state
\* (authenticated, user id, preferences) the session is restored from storage
\* before any Firebase callback runs; and isLoading is set false, so that the
\* navigator replaces the loading view, only by a Firebase callback or by an
\* initialization error.
C16_AuthenticationFlow ==
    /\ [](screen = "P0" /\ authPc = "reading" => delivered = "never" /\ isLoading)
    /\ [](screen = "P0" /\ authPc = "listening" /\ delivered = "never" /\ isMounted
            /\ ValidStored(storage)
            => /\ isAuthenticated
               /\ user # Null
               /\ user = User(storage.userId, "storage"))
    /\ [][screen = "P0" /\ isLoading /\ ~isLoading'
            => \/ Len(callback') < Len(callback) /\ delivered # "never"
               \/ authPc = "reading" /\ authPc' = "failed"]_vars
    /\ [](HeaderShown => ~isLoading)

\* the session is restored from storage and no Firebase callback has run yet
C16_Witness ==
    /\ screen = "P0"
    /\ authPc = "listening"
    /\ delivered = "never"
    /\ ValidStored(storage)
    /\ isAuthenticated
    /\ isLoading


\* the snapshot the entries of a kind were last built from
SourceSnapshot(type) == IF type = "Project" THEN projectsSnap ELSE tasksSnap

\* the documents of snap with the id, by position
PositionsOf(snap, id) == {p \in 1..Len(snap) : snap[p].id = id}

\* C17: within one day's list of the deadlines index, entries of the same
\* kind (Project or Task) stand in the order in which their documents occur
\* in the source snapshot.
C17_SnapshotOrderWithinDay ==
    (screen = "P9" /\ ~uncaught)
        => \A key \in DOMAIN deadlines :
             \A i \in 1..Len(deadlines[key]) : \A j \in 1..Len(deadlines[key]) :
                (i < j /\ deadlines[key][i].type = deadlines[key][j].type)
                    => LET snap == SourceSnapshot(deadlines[key][i].type)
                       IN  /\ PositionsOf(snap, deadlines[key][i].id) # {}
                           /\ PositionsOf(snap, deadlines[key][j].id) # {}
                           /\ \A p \in PositionsOf(snap, deadlines[key][i].id) :
                                \A q \in PositionsOf(snap, deadlines[key][j].id) : p < q

\* a day lists two projects and, between snapshots of projects, a task
C17_Witness ==
    /\ screen = "P9"
    /\ ~uncaught
    /\ \E key \in DOMAIN deadlines :
          /\ Len(deadlines[key]) = 3
          /\ deadlines[key][1].type = "Project"
          /\ deadlines[key][2].type = "Project"
          /\ deadlines[key][3].type = "Task"


\* the entries of a kind in a day's list of an index, in order
EntriesOf(idx, key, type) ==
    IF key \in DOMAIN idx THEN SelectSeq(idx[key], LAMBDA item : item.type = type) ELSE <<>>

\* C19: no task whose completed flag is true is in the calendar's deadlines
\* index: the task-deadline listener indexes incomplete tasks only, a task
\* that is completed in the collection is not listed after the next task
\* snapshot, and that snapshot keeps the project entries of every day.
C19_NoCompletedTaskListed ==
    /\ [](screen = "P9"
            => /\ \A key \in DOMAIN deadlines : \A i \in 1..Len(deadlines[key]) :
                     deadlines[key][i].type = "Task"
                         => /\ deadlines[key][i].completed = Boolean(FALSE)
                            /\ \E d \in Docs(tasksCollection) :
                                  d.id = deadlines[key][i].id /\ d.completed = Boolean(FALSE)
               /\ \A d \in Docs(tasksCollection) :
                     d.completed = Boolean(TRUE)
                         => \A key \in DOMAIN deadlines : \A i \in 1..Len(deadlines[key]) :
                               ~(deadlines[key][i].type = "Task" /\ deadlines[key][i].id = d.id))
    /\ [][(screen = "P9" /\ tasksCollection' # tasksCollection)
            => \A key \in DOMAIN deadlines \cup DOMAIN deadlines' :
                  EntriesOf(deadlines', key, "Project") = EntriesOf(deadlines, key, "Project")]_vars

\* a completed task's day lists a project and an open task, and not the
\* completed task
C19_Witness ==
    /\ screen = "P9"
    /\ \E d \in Docs(tasksCollection) :
          /\ d.completed = Boolean(TRUE)
          /\ toDateStringP9(d.deadline).status = "ok"
          /\ toDateStringP9(d.deadline).key \in DOMAIN deadlines
          /\ Len(EntriesOf(deadlines, toDateStringP9(d.deadline).key, "Project")) > 0
          /\ Len(EntriesOf(deadlines, toDateStringP9(d.deadline).key, "Task")) = 1


\* instant t falls within local day d of the displayed month
OnLocalDay(t, d) == (t + tz) \div 24 = DaysFromCivil(year, month + 1, d)

\* the list shown for the selected day has the project with the title
ShownForSelected(title) ==
    \E i \in 1..Len(selectedDeadlines.list) :
        selectedDeadlines.list[i].type = "Project" /\ selectedDeadlines.list[i].title = title

\* C18: for every cell of the displayed month, standing for local day D, the
\* cell's key is the index key of the deadlines that fall within local day
\* D: the cell has the dot, and its selection lists an item, exactly when
\* the item's deadline is on local day D.
C18_CellKeyIsLocalDay ==
    screen \in {"CalendarScreen", "P9"}
        => /\ \A d \in 1..lastDay(year, month) :
                 /\ \A p \in Docs(projectsSnap) :
                       IsInstant(p.deadline)
                           => (Listed("Project", p.title, dateStr(d))
                                  <=> OnLocalDay(p.deadline.t, d))
                 /\ hasDeadline(d)
                       <=> \E p \in Docs(projectsSnap) :
                              IsInstant(p.deadline) /\ OnLocalDay(p.deadline.t, d)
           /\ selectedDate # Null
                 => \A p \in Docs(projectsSnap) :
                       IsInstant(p.deadline)
                           => (ShownForSelected(p.title)
                                  <=> (p.deadline.t + tz) \div 24
                                         = (selectedDate.dateObj.t + tz) \div 24)


\* C21: two toggle presses on a task leave its stored completed flag at the
\* value it had before them, also when the second press comes before the
\* listener has delivered the snapshot of the first write.
C21_TwoTogglesRestore ==
    \A t \in dbTasks :
        Len(toggled[t.id]) >= 2 => t.completed = toggled[t.id][Len(toggled[t.id]) - 1]

\* C26: once a pull-to-refresh has set isRefreshing, isRefreshing returns to
\* false in the end, in ProjectsScreen and in TasksScreen, even if no data
\* changes in the backend.
C26_RefreshEnds == isRefreshing ~> ~isRefreshing


\* the step ends a callback of the branch without user
EndsWithoutUser ==
    /\ screen = "P0"
    /\ \E i \in 1..Len(callback) :
          /\ callback[i].pc \in {"getItem", "clearAuthState"}
          /\ callback' = Completed(i)

\* C22: when the Firebase listener has reported no user and its handler has
\* completed, user is null, isAuthenticated and isLoading are false, and the
\* stored state is cleared: getStoredAuthState returns isAuthenticated false.
C22_NoUserHandlerClears ==
    [][EndsWithoutUser
          => /\ user' = Null
             /\ ~isAuthenticated'
             /\ ~isLoading'
             /\ ~getStoredAuthState(storage').isAuthenticated]_vars

\* every report has been handled to its end, and no sign-out is under way
Quiescent ==
    /\ screen = "P0"
    /\ isMounted
    /\ authPc = "listening"
    /\ delivered = firebaseUser
    /\ callback = NoCallback
    /\ signOutPc = "idle"

\* C23: once all handlers of the auth listener have completed, the state is
\* that of the latest report, however their awaits interleaved: after user U,
\* isAuthenticated is true, user is U and the stored state is 'authenticated'
\* for U's uid; after no user, isAuthenticated is false and the stored state
\* is cleared.
C23_LatestReportWins ==
    Quiescent
        => IF delivered # ""
           THEN /\ isAuthenticated
                /\ user = User(delivered, "firebase")
                /\ storage.authState = "authenticated"
                /\ storage.userId = delivered
           ELSE /\ ~isAuthenticated
                /\ ~getStoredAuthState(storage).isAuthenticated

\* C24: after the effect's cleanup (isMounted = false) neither the
\* initialization nor a handler of the listener, one that was at an await
\* included, updates user, isAuthenticated or isLoading, and the listener is
\* unsubscribed in the end.
C24_NoUpdateAfterCleanup ==
    /\ [][(screen = "P0" /\ ~isMounted)
            => /\ user' = user
               /\ isAuthenticated' = isAuthenticated
               /\ isLoading' = isLoading]_vars
    /\ ((screen = "P0" /\ ~isMounted) ~> authPc \in {"unsubscribed", "failed"})

\* C25: handleSignOut closes the sidebar first, then attempts to clear the
\* stored state, then signs out of Firebase: signOut is called once the
\* attempt has settled, whether it succeeded or not, and no error leaves the
\* handler.
C25_SignOutOrder ==
    /\ [][(signOutPc = "idle" /\ signOutPc' # "idle")
            => /\ signOutPc' = "clearAuthState"
               /\ ~showSidebar'
               /\ storage' = storage
               /\ firebaseUser' = firebaseUser]_vars
    /\ [][(signOutPc = "clearAuthState" /\ signOutPc' # "clearAuthState")
            => /\ signOutPc' = "signOut"
               /\ firebaseUser' = firebaseUser]_vars
    /\ [][(screen = "P0" /\ firebaseUser # "" /\ firebaseUser' = "")
            => signOutPc = "signOut" /\ signOutPc' = "idle"]_vars
    /\ [](screen = "P0" => ~uncaught)

\* signOut has been called though the stored state is still there
C25_Witness ==
    /\ signOutPc = "signOut"
    /\ getStoredAuthState(storage).isAuthenticated
    /\ callback = NoCallback
    /\ ~showSidebar

====
